---- MODULE Spec2Model ----
(***************************************************************************)
(* SHARPR Normalize (Normalize.py): RNA/DNA barcode counts of an MPRA      *)
(* experiment are turned into one median log2 ratio per sequence.          *)
(*                                                                         *)
(* The script is a Python 2 program (itertools.izip_longest).  One run is  *)
(*   parse_args -> for each (rnafiles, dnafiles): read_csv x2 ->           *)
(*   pseudocounts -> normalise -> cutoff filter -> median / count ->       *)
(*   to_csv -> ... -> exit                                                 *)
(*                                                                         *)
(* Numbers.  Counts and column totals are integers.  A float produced by   *)
(* np.log2(cell / total) is kept symbolically:                             *)
(*     [kind |-> "nan"]              NaN                                   *)
(*     [kind |-> "ninf"], "pinf"     -inf, +inf                            *)
(*     [kind |-> "fin", num, den, div]   log2(num/den) / div               *)
(* so that differences, order and the mean of two values are exact; the    *)
(* rounding of IEEE doubles is not modelled.                               *)
(*                                                                         *)
(* Inputs.  The tables of one pair have the same row identifiers and the   *)
(* same columns, no column is called Ratio or #barcodes, and the output    *)
(* path is none of the input paths.                                        *)
(***************************************************************************)
EXTENDS Integers, Sequences, FiniteSets, TLC

\* ------------------------------------------------------------------ bounds
\* Cells of the enumerated count tables range over 0..MaxCount.
MaxCount == 1
\* The longer of rnalist and dnalist has at most MaxPairs entries.
MaxPairs == 3

\* ------------------------------------------------------- program constants
\* default of --pcr, --pcd and --cutoff
DefaultPcr == 1
DefaultPcd == 1
DefaultCutoff == 20
\* A decimal literal of at most IntDigits digits is an int on every build of
\* Python 2 (sys.maxint >= 2^31 - 1); one of more than LongDigits digits is a
\* long on every build (sys.maxint <= 2^63 - 1).
IntDigits == 9
LongDigits == 19

\* ---------------------------------------------------------- small helpers
Max(a, b) == IF a >= b THEN a ELSE b
Abs(x) == IF x < 0 THEN 0 - x ELSE x

RECURSIVE Gcd(_, _)
Gcd(a, b) == IF b = 0 THEN a ELSE Gcd(b, a % b)

RECURSIVE SetToSeq(_)
SetToSeq(S) ==
    IF S = {} THEN <<>>
    ELSE LET x == CHOOSE y \in S : TRUE IN <<x>> \o SetToSeq(S \ {x})

\* ------------------------------------------------- command line (l. 37-49)
Digits == <<"0", "1", "2", "3", "4", "5", "6", "7", "8", "9">>
IsDigit(c) == \E d \in 1..10 : Digits[d] = c
DigitVal(c) == (CHOOSE d \in 1..10 : Digits[d] = c) - 1

\* An option that is not on the command line.
NotGiven == <<"--">>

\* The digits of a literal, its sign removed.
Unsigned(s) == IF Len(s) > 0 /\ s[1] \in {"-", "+"} THEN Tail(s) ELSE s

\* int(s) of Python accepts an optional sign followed by decimal digits and
\* raises ValueError on anything else.
IsIntLiteral(s) ==
    /\ Len(Unsigned(s)) > 0
    /\ \A j \in 1..Len(Unsigned(s)) : IsDigit(Unsigned(s)[j])

RECURSIVE StripZeros(_)
StripZeros(ds) ==
    IF Len(ds) > 1 /\ ds[1] = "0" THEN StripZeros(Tail(ds)) ELSE ds

RECURSIVE Horner(_, _)
Horner(ds, acc) ==
    IF ds = <<>> THEN acc ELSE Horner(Tail(ds), 10 * acc + DigitVal(ds[1]))

Sign(s) == IF Len(s) > 0 /\ s[1] = "-" THEN 0 - 1 ELSE 1

\* The objects int(s) can return in Python 2: an int when the value fits a C
\* long, a long otherwise.  The width of a C long depends on the build, so a
\* literal between the two limits may come out as either.  A long keeps only
\* its sign here: its magnitude exceeds every count.
PyInt(s) ==
    LET ds == StripZeros(Unsigned(s))
        asInt == [type |-> "int", value |-> Sign(s) * Horner(ds, 0)]
        asLong == [type |-> "long", value |-> Sign(s)]
    IN  IF Len(ds) <= IntDigits THEN {asInt}
        ELSE IF Len(ds) > LongDigits THEN {asLong}
        ELSE {asInt, asLong}

\* add_argument(..., default=d, type=int): the default is used as it is, a
\* given string goes through int().
OptionValues(tok, default) ==
    IF tok = NotGiven THEN {[type |-> "int", value |-> default]}
    ELSE IF IsIntLiteral(tok) THEN PyInt(tok)
    ELSE {}

\* str.split(','): the pieces between the commas, empty pieces included.
RECURSIVE SplitFrom(_, _)
SplitFrom(s, piece) ==
    IF s = <<>> THEN <<piece>>
    ELSE IF s[1] = "," THEN <<piece>> \o SplitFrom(Tail(s), <<>>)
    ELSE SplitFrom(Tail(s), Append(piece, s[1]))

Split(s) == SplitFrom(s, <<>>)

\* Variant: only a non-negative int passes the check.
IsNonNegativeInt(x) == x.type = "int" /\ x.value >= 0

\* isinstance(x, int)
IsInstanceInt(x) == x.type = "int"

\* ------------------------------------------------------------ float values
NaN == [kind |-> "nan"]
NegInf == [kind |-> "ninf"]
PosInf == [kind |-> "pinf"]
Fin(n, d, k) ==
    LET g == Gcd(n, d) IN [kind |-> "fin", num |-> n \div g, den |-> d \div g, div |-> k]

\* np.log2(x / total) for integers x and total (DataFrame.div, l. 72-73):
\* 0/0 is NaN, x/0 is +-inf, log2 of a negative number or of -inf is NaN,
\* log2(0) is -inf and log2(+inf) is +inf.
Log2Div(x, total) ==
    IF total = 0
    THEN IF x > 0 THEN PosInf ELSE NaN
    ELSE IF x = 0 THEN NegInf
    ELSE IF (x < 0) # (total < 0) THEN NaN
    ELSE Fin(Abs(x), Abs(total), 1)

\* a - b on floats (l. 74); both finite operands are plain logarithms.
Minus(a, b) ==
    IF a.kind = "nan" \/ b.kind = "nan" THEN NaN
    ELSE IF a.kind = "fin" /\ b.kind = "fin" THEN Fin(a.num * b.den, a.den * b.num, 1)
    ELSE IF a.kind = "fin" THEN (IF b.kind = "pinf" THEN NegInf ELSE PosInf)
    ELSE IF b.kind = "fin" THEN a
    ELSE IF a.kind = b.kind THEN NaN
    ELSE a

\* a <= b on non-NaN floats whose finite values are plain logarithms.
Leq(a, b) ==
    IF a.kind = "ninf" \/ b.kind = "pinf" THEN TRUE
    ELSE IF a.kind = "pinf" \/ b.kind = "ninf" THEN FALSE
    ELSE a.num * b.den <= b.num * a.den

\* (a + b) / 2 on non-NaN floats whose finite values are plain logarithms.
Mean(a, b) ==
    IF a.kind = "fin" /\ b.kind = "fin"
    THEN IF a = b THEN a ELSE Fin(a.num * b.num, a.den * b.den, 2)
    ELSE IF a.kind = "fin" THEN b
    ELSE IF b.kind = "fin" THEN a
    ELSE IF a.kind = b.kind THEN a
    ELSE NaN

\* ------------------------------------------------------------ count tables
\* A DataFrame: row identifier -> column -> cell.  A name not yet bound is <<>>.
Unbound == <<>>

Index(t) == DOMAIN t
Columns(t) == IF DOMAIN t = {} THEN {} ELSE DOMAIN t[CHOOSE r \in DOMAIN t : TRUE]

\* df += n (l. 64-65)
AddScalar(t, n) == [r \in Index(t) |-> [c \in Columns(t) |-> t[r][c] + n]]

RECURSIVE SumRows(_, _, _)
SumRows(t, rows, c) ==
    IF rows = {} THEN 0
    ELSE LET r == CHOOSE x \in rows : TRUE IN t[r][c] + SumRows(t, rows \ {r}, c)

\* Variant: every column gets the total of the whole table.
GrandTotal(t) ==
    LET cs == SetToSeq(Columns(t))
        Total[j \in 0..Len(cs)] ==
            IF j = 0 THEN 0 ELSE Total[j - 1] + SumRows(t, Index(t), cs[j])
    IN  [c \in Columns(t) |-> Total[Len(cs)]]

\* df.sum(): one total per column, taken over the rows (l. 70-71)
ColumnSum(t) == [c \in Columns(t) |-> SumRows(t, Index(t), c)]

\* np.log2(df.div(totals)): every cell by the total of its own column (l. 72-73)
Log2Normalized(t, totals) ==
    [r \in Index(t) |-> [c \in Columns(t) |-> Log2Div(t[r][c], totals[c])]]

\* df_rna_normalized - df_dna_normalized (l. 74)
Subtract(a, b) == [r \in Index(a) |-> [c \in Columns(a) |-> Minus(a[r][c], b[r][c])]]

\* Variant: a count equal to the cutoff is masked as well.
AtLeastStrict(cell, cutoff) ==
    IF cutoff.type = "int" THEN cell > cutoff.value ELSE cutoff.value < 0

\* cell >= args.cutoff; a long cutoff lies beyond every count.
AtLeast(cell, cutoff) ==
    IF cutoff.type = "int" THEN cell >= cutoff.value ELSE cutoff.value < 0

\* df_dna_copy[:] >= args.cutoff (l. 77): the boolean frame used as the mask
CutoffMask(dna, cutoff) ==
    [r \in Index(dna) |-> [c \in Columns(dna) |-> AtLeast(dna[r][c], cutoff)]]

\* Variant: a row without any retained cell is dropped.
WhereDropRows(df, mask) ==
    [r \in {x \in Index(df) : \E c \in Columns(df) : mask[x][c]} |->
        [c \in Columns(df) |-> IF mask[r][c] THEN df[r][c] ELSE NaN]]

\* df[mask] (l. 77): DataFrame.where, the shape kept, NaN where the mask is False
Where(df, mask) ==
    [r \in Index(df) |-> [c \in Columns(df) |-> IF mask[r][c] THEN df[r][c] ELSE NaN]]

\* the values of one row that are not NaN (skipna / count), in column order
NotNa(row, cols) == SelectSeq([j \in 1..Len(SetToSeq(cols)) |-> row[SetToSeq(cols)[j]]],
                              LAMBDA v : v.kind # "nan")

RECURSIVE Insert(_, _)
Insert(v, sorted) ==
    IF sorted = <<>> THEN <<v>>
    ELSE IF Leq(v, sorted[1]) THEN <<v>> \o sorted
    ELSE <<sorted[1]>> \o Insert(v, Tail(sorted))

RECURSIVE Sort(_)
Sort(vs) == IF vs = <<>> THEN <<>> ELSE Insert(vs[1], Sort(Tail(vs)))

\* median(axis=1, skipna=True) of one row (l. 80): NaN when nothing is left,
\* the middle value of the sorted values, or the mean of the two middle ones.
Median(row, cols) ==
    LET vs == Sort(NotNa(row, cols))
        n == Len(vs)
    IN  IF n = 0 THEN NaN
        ELSE IF n % 2 = 1 THEN vs[(n + 1) \div 2]
        ELSE Mean(vs[n \div 2], vs[n \div 2 + 1])

\* count(axis=1) of one row over the given columns (l. 81)
Count(row, cols) == Len(NotNa(row, cols))

\* df['Ratio'] = df.median(axis=1, skipna=True) (l. 80): the median is taken
\* over the columns the frame has at that moment, then stored as a new column.
WithRatio(df) ==
    [r \in Index(df) |->
        [c \in Columns(df) \cup {"Ratio"} |->
            IF c = "Ratio" THEN Median(df[r], Columns(df)) ELSE df[r][c]]]

\* Variant: the count runs over every column, Ratio included.
AllColumns(df) == Columns(df)

\* the columns selected by df.columns != 'Ratio' (l. 81)
BarcodeColumns(df) == Columns(df) \ {"Ratio"}

\* df['#barcodes'] = df.loc[:, df.columns != 'Ratio'].count(axis=1) (l. 81)
WithBarcodes(df) ==
    [r \in Index(df) |->
        [c \in Columns(df) \cup {"#barcodes"} |->
            IF c = "#barcodes" THEN Count(df[r], BarcodeColumns(df)) ELSE df[r][c]]]

\* pd.concat([df['Ratio'], df['#barcodes']], axis=1) (l. 84)
Concat(df) == [r \in Index(df) |-> [c \in {"Ratio", "#barcodes"} |-> df[r][c]]]

\* ------------------------------------------------------------------- files
\* What izip_longest puts where one list has run out.
None == [isNone |-> TRUE, path |-> <<>>]
Path(p) == [isNone |-> FALSE, path |-> p]

TableFile(t) == [kind |-> "table", data |-> t]
MalformedFile == [kind |-> "malformed", data |-> Unbound]

\* itertools.izip_longest(rnalist, dnalist) (l. 53): as long as the longer
\* list, the shorter one filled with None.
IzipLongest(a, b) ==
    [j \in 1..Max(Len(a), Len(b)) |->
        <<IF j <= Len(a) THEN Path(a[j]) ELSE None,
          IF j <= Len(b) THEN Path(b[j]) ELSE None>>]

\* pd.read_csv(f, sep='\t', index_col=0) (l. 56-57): raises on None, on a path
\* that names no file and on a file that does not parse.
ReadCsv(files, f) ==
    IF f.isNone THEN [ok |-> FALSE, data |-> Unbound]
    ELSE IF f.path \notin DOMAIN files THEN [ok |-> FALSE, data |-> Unbound]
    ELSE IF files[f.path].kind # "table" THEN [ok |-> FALSE, data |-> Unbound]
    ELSE [ok |-> TRUE, data |-> files[f.path].data]

\* Variant: the file is opened for appending, its earlier rows stay.
ToCsvAppend(old, df) ==
    [exists |-> TRUE, data |-> IF old.exists THEN df @@ old.data ELSE df]

\* to_csv(args.outfile, ...) (l. 85): the file is opened for writing, so what
\* it held is replaced by the frame.
ToCsv(old, df) == [exists |-> TRUE, data |-> df]

NoFile == [exists |-> FALSE, data |-> Unbound]

\* ------------------------------------------------------------------- state
VARIABLES
    argv,               \* the command line: rnalist, dnalist, --pcr, --pcd, --cutoff
    files,              \* the input files: path -> content
    pc,                 \* where the script is
    args,               \* parser.parse_args()
    rnalist, dnalist,   \* the split lists
    k,                  \* position of the loop in izip_longest(rnalist, dnalist)
    df_rna, df_dna, df_dna_copy,
    df_rna_sum, df_dna_sum,
    df_rna_normalized, df_dna_normalized,
    df_normalized, df_output,
    outfile,            \* what the file at args.outfile holds
    stdout,             \* the lines printed
    io                  \* the file operations performed, in order

frames == <<df_rna, df_dna, df_dna_copy, df_rna_sum, df_dna_sum,
            df_rna_normalized, df_dna_normalized, df_normalized, df_output>>
inputs == <<argv, files>>
vars == <<argv, files, pc, args, rnalist, dnalist, k, df_rna, df_dna, df_dna_copy,
          df_rna_sum, df_dna_sum, df_rna_normalized, df_dna_normalized,
          df_normalized, df_output, outfile, stdout, io>>

Warning == "WARNING: pseudo counts are set as default value 1 since input of pcr and/or pcd is not integer"

\* ------------------------------------------------------------------ inputs
Str(a) == <<a>>
STR0 == <<"0">>
STR1 == <<"1">>
STRm1 == <<"-", "1">>
STRabc == <<"a", "b", "c">>
\* a literal of 20 digits: a long on every build
STRlong == <<"1", "0", "0", "0", "0", "0", "0", "0", "0", "0",
             "0", "0", "0", "0", "0", "0", "0", "0", "0", "0">>

PcTokens == {NotGiven, STR0, STR1, STRm1, STRabc, STRlong}
CutoffTokens == {NotGiven, STR0, STR1, <<"2">>, STRabc}

Seqs == {"seq1", "seq2"}
Samples2 == {"s1", "s2"}
Samples3 == {"s1", "s2", "s3"}

\* every table of two sequences and two samples with cells in 0..MaxCount
GridTables == [Seqs -> [Samples2 -> 0..MaxCount]]

\* tables of three samples: the cells of seq1 range over 0..MaxCount, seq2 is fixed
RowTables(rest) ==
    {[r \in Seqs |-> IF r = "seq1" THEN row ELSE rest] : row \in [Samples3 -> 0..MaxCount]}
RnaRest == ("s1" :> 2) @@ ("s2" :> 1) @@ ("s3" :> 3)
DnaRest == ("s1" :> 1) @@ ("s2" :> 3) @@ ("s3" :> 2)

\* the tables of the worked example: one sequence, two samples
ExampleRna == "seq1" :> (("s1" :> 10) @@ ("s2" :> 20))
ExampleDna == "seq1" :> (("s1" :> 5) @@ ("s2" :> 25))

\* two sequences, five samples
WideRna ==
    ("seq1" :> (("s1" :> 3) @@ ("s2" :> 8) @@ ("s3" :> 1) @@ ("s4" :> 6) @@ ("s5" :> 4))) @@
    ("seq2" :> (("s1" :> 5) @@ ("s2" :> 2) @@ ("s3" :> 7) @@ ("s4" :> 0) @@ ("s5" :> 6)))
WideDna ==
    ("seq1" :> (("s1" :> 0) @@ ("s2" :> 2) @@ ("s3" :> 0) @@ ("s4" :> 0) @@ ("s5" :> 3))) @@
    ("seq2" :> (("s1" :> 4) @@ ("s2" :> 1) @@ ("s3" :> 2) @@ ("s4" :> 5) @@ ("s5" :> 0)))

\* what an output file left by an earlier run holds
StaleOutput == "old" :> (("Ratio" :> NaN) @@ ("#barcodes" :> 0))

Argv(rl, dl, pcr, pcd, cutoff) ==
    [rnalist |-> rl, dnalist |-> dl, pcr |-> pcr, pcd |-> pcd, cutoff |-> cutoff]

\* comma-joined list of one-atom paths
RECURSIVE Join(_)
Join(ps) ==
    IF ps = <<>> THEN <<>>
    ELSE IF Len(ps) = 1 THEN <<ps[1]>>
    ELSE <<ps[1], ",">> \o Join(Tail(ps))

OnePair(rna, dna) == (Str("rna") :> TableFile(rna)) @@ (Str("dna") :> TableFile(dna))

\* the files of a batch; "nofile" names no file
BatchFiles ==
    (Str("rnaA") :> TableFile(ExampleRna)) @@ (Str("dnaA") :> TableFile(ExampleDna)) @@
    (Str("rnaB") :> TableFile(WideRna)) @@ (Str("dnaB") :> TableFile(WideDna)) @@
    (Str("rnaBad") :> MalformedFile) @@ (Str("dnaBad") :> MalformedFile)

PairKinds ==
    {<<"rnaA", "dnaA">>, <<"rnaB", "dnaB">>, <<"nofile", "dnaA">>, <<"rnaA", "nofile">>,
     <<"rnaBad", "dnaB">>, <<"rnaB", "dnaBad">>}

Begin ==
    /\ pc = "start"
    /\ args = Unbound /\ rnalist = Unbound /\ dnalist = Unbound /\ k = 0
    /\ df_rna = Unbound /\ df_dna = Unbound /\ df_dna_copy = Unbound
    /\ df_rna_sum = Unbound /\ df_dna_sum = Unbound
    /\ df_rna_normalized = Unbound /\ df_dna_normalized = Unbound
    /\ df_normalized = Unbound /\ df_output = Unbound
    /\ stdout = <<>> /\ io = <<>>

\* one pair, every small table, pseudocounts of -1, 0 or 1 and a cutoff of 0 or 1
InitGrid ==
    /\ \E rna \in GridTables \cup RowTables(RnaRest) :
       \E dna \in (IF Columns(rna) = Samples2 THEN GridTables ELSE RowTables(DnaRest)) :
          files = OnePair(rna, dna)
    /\ \E pcr \in {STR0, STR1, STRm1}, pcd \in {STR0, STR1, STRm1}, cutoff \in {STR0, STR1} :
          argv = Argv(Str("rna"), Str("dna"), pcr, pcd, cutoff)
    /\ outfile = NoFile

\* one pair of fixed tables, every combination of option strings
InitOptions ==
    /\ files \in {OnePair(ExampleRna, ExampleDna), OnePair(WideRna, WideDna),
                  OnePair([r \in Seqs |-> RnaRest], [r \in Seqs |-> DnaRest])}
    /\ \E pcr \in PcTokens, pcd \in PcTokens, cutoff \in CutoffTokens :
          argv = Argv(Str("rna"), Str("dna"), pcr, pcd, cutoff)
    /\ outfile = NoFile

\* up to MaxPairs pairs, one list possibly shorter than the other, some files
\* missing or malformed, the output file possibly there already
InitBatch ==
    /\ files = BatchFiles
    /\ \E n \in 1..MaxPairs : \E ps \in [1..n -> PairKinds] :
       \E lr \in 1..n, ld \in 1..n :
          /\ Max(lr, ld) = n
          /\ argv = Argv(Join([j \in 1..lr |-> ps[j][1]]), Join([j \in 1..ld |-> ps[j][2]]),
                         NotGiven, NotGiven, STR1)
    /\ outfile \in {NoFile, [exists |-> TRUE, data |-> StaleOutput]}

Init == Begin /\ (InitGrid \/ InitOptions \/ InitBatch)

\* ----------------------------------------------------------------- actions
\* parser.parse_args() (l. 47): an option string that int() rejects makes
\* argparse print the usage and exit with status 2.
UsageError ==
    /\ pc = "start"
    /\ \/ OptionValues(argv.pcr, DefaultPcr) = {}
       \/ OptionValues(argv.pcd, DefaultPcd) = {}
       \/ OptionValues(argv.cutoff, DefaultCutoff) = {}
    /\ pc' = "exit2"
    /\ UNCHANGED <<inputs, args, rnalist, dnalist, k, frames, outfile, stdout, io>>

\* l. 47-49: the options converted, the two lists split
ParseArgs ==
    /\ pc = "start"
    /\ \E pcr \in OptionValues(argv.pcr, DefaultPcr),
          pcd \in OptionValues(argv.pcd, DefaultPcd),
          cutoff \in OptionValues(argv.cutoff, DefaultCutoff) :
          args' = [pcr |-> pcr, pcd |-> pcd, cutoff |-> cutoff]
    /\ rnalist' = Split(argv.rnalist)
    /\ dnalist' = Split(argv.dnalist)
    /\ k' = 1
    /\ pc' = "loop"
    /\ UNCHANGED <<inputs, frames, outfile, stdout, io>>

Pairs == IzipLongest(rnalist, dnalist)
rnafiles == Pairs[k][1]
dnafiles == Pairs[k][2]

\* l. 53-58: the next pair is taken and both files are read
Load ==
    /\ pc = "loop" /\ k <= Len(Pairs)
    /\ ReadCsv(files, rnafiles).ok /\ ReadCsv(files, dnafiles).ok
    /\ df_rna' = ReadCsv(files, rnafiles).data
    /\ df_dna' = ReadCsv(files, dnafiles).data
    /\ df_dna_copy' = df_dna'
    /\ io' = io \o << <<"read", k, "rna">>, <<"read", k, "dna">> >>
    /\ pc' = "loaded"
    /\ UNCHANGED <<inputs, args, rnalist, dnalist, k, df_rna_sum, df_dna_sum,
                   df_rna_normalized, df_dna_normalized, df_normalized, df_output,
                   outfile, stdout>>

\* Variant: a pair that cannot be read is skipped and the loop goes on.
LoadFailSkip ==
    /\ pc = "loop" /\ k <= Len(Pairs)
    /\ ~(ReadCsv(files, rnafiles).ok /\ ReadCsv(files, dnafiles).ok)
    /\ io' = Append(io, <<"fail", k, "rna">>)
    /\ k' = k + 1
    /\ UNCHANGED <<inputs, pc, args, rnalist, dnalist, frames, outfile, stdout>>

\* l. 56-57: read_csv raises; nothing catches it and the script ends
LoadFail ==
    /\ pc = "loop" /\ k <= Len(Pairs)
    /\ \/ /\ ~ReadCsv(files, rnafiles).ok
          /\ io' = Append(io, <<"fail", k, "rna">>)
          /\ df_rna' = df_rna
       \/ /\ ReadCsv(files, rnafiles).ok /\ ~ReadCsv(files, dnafiles).ok
          /\ io' = io \o << <<"read", k, "rna">>, <<"fail", k, "dna">> >>
          /\ df_rna' = ReadCsv(files, rnafiles).data
    /\ pc' = "raised"
    /\ UNCHANGED <<inputs, args, rnalist, dnalist, k, df_dna, df_dna_copy, df_rna_sum,
                   df_dna_sum, df_rna_normalized, df_dna_normalized, df_normalized,
                   df_output, outfile, stdout>>

\* l. 53: izip_longest is exhausted
Finish ==
    /\ pc = "loop" /\ k > Len(Pairs)
    /\ pc' = "exit0"
    /\ UNCHANGED <<inputs, args, rnalist, dnalist, k, frames, outfile, stdout, io>>

\* l. 61: not (isinstance(args.pcd, int) & isinstance(args.pcr, int))
NotBothInt == ~(IsInstanceInt(args.pcd) /\ IsInstanceInt(args.pcr))

\* l. 61-62: the warning; the tables stay as loaded
Warn ==
    /\ pc = "loaded" /\ NotBothInt
    /\ stdout' = Append(stdout, Warning)
    /\ pc' = "smoothed"
    /\ UNCHANGED <<inputs, args, rnalist, dnalist, k, frames, outfile, io>>

\* l. 63-65
AddPseudocounts ==
    /\ pc = "loaded" /\ ~NotBothInt
    /\ df_rna' = AddScalar(df_rna, args.pcr.value)
    /\ df_dna' = AddScalar(df_dna, args.pcd.value)
    /\ pc' = "smoothed"
    /\ UNCHANGED <<inputs, args, rnalist, dnalist, k, df_dna_copy, df_rna_sum, df_dna_sum,
                   df_rna_normalized, df_dna_normalized, df_normalized, df_output,
                   outfile, stdout, io>>

\* l. 70-74
Normalize ==
    /\ pc = "smoothed"
    /\ df_rna_sum' = ColumnSum(df_rna)
    /\ df_dna_sum' = ColumnSum(df_dna)
    /\ df_rna_normalized' = Log2Normalized(df_rna, df_rna_sum')
    /\ df_dna_normalized' = Log2Normalized(df_dna, df_dna_sum')
    /\ df_normalized' = Subtract(df_rna_normalized', df_dna_normalized')
    /\ pc' = "normalized"
    /\ UNCHANGED <<inputs, args, rnalist, dnalist, k, df_rna, df_dna, df_dna_copy,
                   df_output, outfile, stdout, io>>

\* l. 77
Filter ==
    /\ pc = "normalized"
    /\ df_normalized' = Where(df_normalized, CutoffMask(df_dna_copy, args.cutoff))
    /\ pc' = "filtered"
    /\ UNCHANGED <<inputs, args, rnalist, dnalist, k, df_rna, df_dna, df_dna_copy,
                   df_rna_sum, df_dna_sum, df_rna_normalized, df_dna_normalized,
                   df_output, outfile, stdout, io>>

\* l. 80-81
Summarize ==
    /\ pc = "filtered"
    /\ df_normalized' = WithBarcodes(WithRatio(df_normalized))
    /\ pc' = "summarized"
    /\ UNCHANGED <<inputs, args, rnalist, dnalist, k, df_rna, df_dna, df_dna_copy,
                   df_rna_sum, df_dna_sum, df_rna_normalized, df_dna_normalized,
                   df_output, outfile, stdout, io>>

\* l. 84-85, then back to l. 53
Write ==
    /\ pc = "summarized"
    /\ df_output' = Concat(df_normalized)
    /\ outfile' = ToCsv(outfile, df_output')
    /\ io' = Append(io, <<"write", k>>)
    /\ k' = k + 1
    /\ pc' = "loop"
    /\ UNCHANGED <<inputs, args, rnalist, dnalist, df_rna, df_dna, df_dna_copy,
                   df_rna_sum, df_dna_sum, df_rna_normalized, df_dna_normalized,
                   df_normalized, stdout>>

Next ==
    \/ UsageError
    \/ ParseArgs
    \/ Load
    \/ LoadFail
    \/ Finish
    \/ Warn
    \/ AddPseudocounts
    \/ Normalize
    \/ Filter
    \/ Summarize
    \/ Write

Spec == Init /\ [][Next]_vars

\* ================================================================== claims
\* The script is inside the loop body, working on pair k.
InBody == pc \in {"loaded", "smoothed", "normalized", "filtered", "summarized"}

\* The tables of pair j as they are in the input files.
InputRna(j) == ReadCsv(files, Pairs[j][1]).data
InputDna(j) == ReadCsv(files, Pairs[j][2]).data

\* The pairs written so far, in order.
Written == SelectSeq(io, LAMBDA e : e[1] = "write")

Lt(a, b) == ~Leq(b, a)

\* isinstance(x, int) holds of both pseudocounts
BothInt == args.pcr.type = "int" /\ args.pcd.type = "int"

\* ---------------------------------------------------------------------- C1
\* C1: once the cutoff filter has run, a cell is masked (NaN) when the DNA
\* count of that cell in the input file is below the cutoff, and it still
\* holds its ratio when that count is at least the cutoff, the count equal to
\* the cutoff included; the pseudocounts play no part in the decision.
C1_MaskIffOriginalBelowCutoff ==
    pc = "filtered" =>
        \A r \in Index(InputDna(k)) : \A c \in Columns(InputDna(k)) :
            IF InputDna(k)[r][c] < args.cutoff.value
            THEN df_normalized[r][c] = NaN
            ELSE df_normalized[r][c] = Minus(df_rna_normalized[r][c], df_dna_normalized[r][c])

\* A count one below the cutoff is masked although the pseudocount lifted it
\* to the cutoff, and a count equal to the cutoff keeps its ratio.
C1_Witness ==
    /\ pc = "filtered"
    /\ \E r \in Index(InputDna(k)) : \E c \in Columns(InputDna(k)) :
          /\ InputDna(k)[r][c] = args.cutoff.value - 1
          /\ df_dna[r][c] >= args.cutoff.value
          /\ Minus(df_rna_normalized[r][c], df_dna_normalized[r][c]).kind = "fin"
          /\ df_normalized[r][c] = NaN
    /\ \E r \in Index(InputDna(k)) : \E c \in Columns(InputDna(k)) :
          /\ InputDna(k)[r][c] = args.cutoff.value
          /\ df_normalized[r][c].kind = "fin"

\* ---------------------------------------------------------------------- C2
\* The columns of row r whose ratio is neither masked nor NaN.
ValidCells(r) ==
    {c \in Columns(InputDna(k)) :
        /\ InputDna(k)[r][c] >= args.cutoff.value
        /\ Minus(df_rna_normalized[r][c], df_dna_normalized[r][c]).kind # "nan"}

\* m is (a + b) / 2
IsMeanOf(m, a, b) ==
    IF a.kind = "fin" /\ b.kind = "fin"
    THEN /\ m.kind = "fin"
         /\ IF m.div = 2
            THEN m.num * (a.den * b.den) = m.den * (a.num * b.num)
            ELSE m.num * m.num * (a.den * b.den) = m.den * m.den * (a.num * b.num)
    ELSE IF a.kind # "fin" /\ b.kind # "fin" /\ a.kind # b.kind THEN m = NaN
    ELSE IF a.kind # "fin" THEN m = a
    ELSE m = b

\* m is the median of the values row[c], c in S: the value with at most half
\* of the others below and at most half above it, or the mean of the values
\* at ranks n/2 and n/2 + 1
IsMedianOf(m, row, S) ==
    LET n == Cardinality(S) IN
    IF n = 0 THEN m = NaN
    ELSE IF n % 2 = 1
    THEN \E c \in S :
            /\ m = row[c]
            /\ Cardinality({d \in S : Lt(row[d], row[c])}) <= (n - 1) \div 2
            /\ Cardinality({d \in S : Lt(row[c], row[d])}) <= (n - 1) \div 2
    ELSE \E c1 \in S : \E c2 \in S :
            /\ Cardinality({d \in S : Lt(row[d], row[c1])}) <= n \div 2 - 1
            /\ Cardinality({d \in S : Leq(row[d], row[c1])}) >= n \div 2
            /\ Cardinality({d \in S : Lt(row[c2], row[d])}) <= n \div 2 - 1
            /\ Cardinality({d \in S : Leq(row[c2], row[d])}) >= n \div 2
            /\ IsMeanOf(m, row[c1], row[c2])

\* C2: in every row, Ratio is the median of exactly the cells that are neither
\* masked nor NaN (the middle one of an odd number, the mean of the two middle
\* ones of an even number, NaN of none) and #barcodes is the number of those
\* cells; neither value counts the Ratio column.
C2_MedianAndCountOverValidCells ==
    pc = "summarized" =>
        \A r \in Index(InputDna(k)) :
            /\ df_normalized[r]["#barcodes"] = Cardinality(ValidCells(r))
            /\ IsMedianOf(df_normalized[r]["Ratio"], df_normalized[r], ValidCells(r))

\* A row of five samples, three of them masked: the median is the mean of the
\* two cells left and #barcodes is 2.
C2_Witness ==
    /\ pc = "summarized"
    /\ \E r \in Index(InputDna(k)) :
          /\ Cardinality(Columns(InputDna(k))) = 5
          /\ Cardinality({c \in Columns(InputDna(k)) :
                             InputDna(k)[r][c] < args.cutoff.value}) = 3
          /\ df_normalized[r]["#barcodes"] = 2
          /\ df_normalized[r]["Ratio"].kind = "fin"
          /\ df_normalized[r]["Ratio"].div = 2

\* ---------------------------------------------------------------------- C3
\* The worked example: seq1, RNA (10, 20), DNA (5, 25), pcr = pcd = 1, cutoff 0.
ExampleRun ==
    /\ files = OnePair(ExampleRna, ExampleDna)
    /\ pc \in {"normalized", "filtered", "summarized"}
    /\ args.pcr = [type |-> "int", value |-> 1]
    /\ args.pcd = [type |-> "int", value |-> 1]
    /\ args.cutoff = [type |-> "int", value |-> 0]

ExampleSmoothed ==
    /\ df_rna = "seq1" :> (("s1" :> 11) @@ ("s2" :> 21))
    /\ df_dna = "seq1" :> (("s1" :> 6) @@ ("s2" :> 26))

\* C3 as stated: every RNA cell and every DNA cell of the example is divided
\* by 32.
C3_Original ==
    ExampleRun =>
        /\ ExampleSmoothed
        /\ \A c \in {"s1", "s2"} : df_rna_sum[c] = 32 /\ df_dna_sum[c] = 32
        /\ df_rna_normalized["seq1"] = ("s1" :> Fin(11, 32, 1)) @@ ("s2" :> Fin(21, 32, 1))
        /\ df_dna_normalized["seq1"] = ("s1" :> Fin(6, 32, 1)) @@ ("s2" :> Fin(26, 32, 1))
        /\ (pc = "summarized" => df_normalized["seq1"]["#barcodes"] = 2)

\* C3 (amended): in the example the tables after the pseudocounts are
\* RNA (11, 21) and DNA (6, 26); each cell is divided by the total of its own
\* column, 11 and 21 for RNA and 6 and 26 for DNA, so every normalised cell is
\* 1 before log2 and every ratio is 0; the output row has Ratio 0 and
\* #barcodes 2.
C3_ExamplePerColumnTotals ==
    ExampleRun =>
        /\ ExampleSmoothed
        /\ df_rna_sum = ("s1" :> 11) @@ ("s2" :> 21)
        /\ df_dna_sum = ("s1" :> 6) @@ ("s2" :> 26)
        /\ \A c \in {"s1", "s2"} :
              /\ df_rna_normalized["seq1"][c] = Fin(1, 1, 1)
              /\ df_dna_normalized["seq1"][c] = Fin(1, 1, 1)
              /\ df_normalized["seq1"][c] = Fin(1, 1, 1)
        /\ (pc = "summarized" =>
              /\ df_normalized["seq1"]["#barcodes"] = 2
              /\ df_normalized["seq1"]["Ratio"] = Fin(1, 1, 1))

C3_Witness == ExampleRun /\ pc = "summarized" /\ df_normalized["seq1"]["#barcodes"] = 2

\* ---------------------------------------------------------------------- C4
\* --pcr or --pcd is given and is no integer literal.
NonIntegerPseudocount ==
    \/ argv.pcr # NotGiven /\ ~IsIntLiteral(argv.pcr)
    \/ argv.pcd # NotGiven /\ ~IsIntLiteral(argv.pcd)

\* C4: with a non-integer --pcr or --pcd (and a well-formed --cutoff) the run
\* is not aborted: it goes on past the command line, and when it has ended
\* the warning was printed, every pair was written and the output file is
\* there.
C4_NonIntegerOptionDoesNotAbort ==
    (NonIntegerPseudocount /\ OptionValues(argv.cutoff, DefaultCutoff) # {}) =>
        /\ pc # "exit2"
        /\ (pc \in {"exit0", "raised"} =>
              /\ pc = "exit0"
              /\ Warning \in {stdout[j] : j \in 1..Len(stdout)}
              /\ Len(Written) = Len(Pairs)
              /\ outfile.exists)

\* ---------------------------------------------------------------------- C5
\* C5: when the two lists differ in length no pair is processed: nothing is
\* read and nothing is written before the error.
C5_LengthMismatchRejectedUpFront ==
    (pc # "start" /\ Len(rnalist) # Len(dnalist)) =>
        \A j \in 1..Len(io) : io[j][1] = "fail"

\* ---------------------------------------------------------------------- C6
\* C6: whenever something has been written, the output file holds the frame
\* of the pair written last and nothing else: its rows are the sequence
\* identifiers of that pair's input, whatever earlier pairs or an earlier run
\* left in the file.
C6_OutputIsLastWrittenPair ==
    Len(Written) > 0 =>
        LET last == Written[Len(Written)][2] IN
        /\ outfile = [exists |-> TRUE, data |-> df_output]
        /\ Index(outfile.data) = Index(InputRna(last))
        /\ \A r \in Index(outfile.data) : DOMAIN outfile.data[r] = {"Ratio", "#barcodes"}

\* Two pairs with different sequence identifiers were written one after the
\* other to a file that was there before the run.
C6_Witness ==
    /\ pc = "exit0"
    /\ Len(Written) >= 2
    /\ Index(InputRna(1)) # Index(InputRna(Len(Pairs)))
    /\ Index(outfile.data) = Index(InputRna(Len(Pairs)))

\* ---------------------------------------------------------------------- C7
\* C7: the filter and the summary keep the rows of the input, and the file
\* written for a pair has exactly one row per sequence identifier of its
\* input; a row whose cells are all masked or NaN is written with a NaN Ratio
\* and #barcodes = 0.
C7_OneRowPerSequence ==
    /\ pc \in {"filtered", "summarized"} => Index(df_normalized) = Index(InputRna(k))
    /\ (pc = "loop" /\ k > 1) =>
          /\ Index(outfile.data) = Index(InputRna(k - 1))
          /\ \A r \in Index(InputRna(k - 1)) :
                (\A c \in Columns(InputRna(k - 1)) : df_normalized[r][c] = NaN) =>
                    /\ outfile.data[r]["Ratio"] = NaN
                    /\ outfile.data[r]["#barcodes"] = 0

\* One row is masked in every cell and written with NaN and 0; another row of
\* the same table has cells left.
C7_Witness ==
    /\ pc = "loop" /\ k > 1
    /\ \E r \in Index(InputDna(k - 1)) :
          /\ \A c \in Columns(InputDna(k - 1)) : InputDna(k - 1)[r][c] < args.cutoff.value
          /\ outfile.data[r]["Ratio"] = NaN
          /\ outfile.data[r]["#barcodes"] = 0
    /\ \E r \in Index(InputDna(k - 1)) : outfile.data[r]["#barcodes"] > 0

\* ---------------------------------------------------------------------- C8
\* The normalisation of cell (r, c) of table t divides by a zero total or
\* takes log2 of a value that is zero or negative.
Degenerate(t, totals, r, c) ==
    \/ totals[c] = 0
    \/ t[r][c] = 0
    \/ (t[r][c] < 0) # (totals[c] < 0)

\* C8: a cell whose normalisation divides by a zero total or takes log2 of
\* zero or of a negative value has a NaN ratio, is not counted in #barcodes
\* and does not enter the median, also when its DNA count passes the cutoff.
\* Stated for the pseudocounts the specification allows, the non-negative ones.
C8_DegenerateCellIsMissing ==
    (pc = "summarized" /\ BothInt /\ args.pcr.value >= 0 /\ args.pcd.value >= 0) =>
        \A r \in Index(InputDna(k)) :
            LET bad == {c \in Columns(InputDna(k)) :
                           \/ Degenerate(df_rna, df_rna_sum, r, c)
                           \/ Degenerate(df_dna, df_dna_sum, r, c)}
                kept == {c \in Columns(InputDna(k)) \ bad :
                            InputDna(k)[r][c] >= args.cutoff.value}
            IN  /\ \A c \in bad : df_normalized[r][c] = NaN
                /\ df_normalized[r]["#barcodes"] = Cardinality(kept)
                /\ IsMedianOf(df_normalized[r]["Ratio"], df_normalized[r], kept)

\* ---------------------------------------------------------------------- C9
\* the tables are as loaded and the warning was printed for every pair so far
Unsmoothed ==
    /\ df_rna = InputRna(k)
    /\ df_dna = InputDna(k)
    /\ stdout = [j \in 1..k |-> Warning]

\* every RNA cell grew by pcr, every DNA cell by pcd, nothing was printed
Smoothed ==
    /\ \A r \in Index(InputRna(k)) : \A c \in Columns(InputRna(k)) :
          /\ df_rna[r][c] = InputRna(k)[r][c] + args.pcr.value
          /\ df_dna[r][c] = InputDna(k)[r][c] + args.pcd.value
    /\ Index(df_rna) = Index(InputRna(k)) /\ Index(df_dna) = Index(InputDna(k))
    /\ stdout = <<>>

\* C9 as stated: the pseudocounts are added when both are non-negative
\* integers; otherwise, a negative integer included, the warning is printed
\* and both tables stay as loaded.
C9_Original ==
    pc = "smoothed" =>
        IF BothInt /\ args.pcr.value >= 0 /\ args.pcd.value >= 0
        THEN Smoothed
        ELSE Unsmoothed

\* C9 (amended): the pseudocounts are all-or-nothing and gated on the type
\* alone: when pcr and pcd are both of type int, of either sign, every RNA
\* cell grows by pcr and every DNA cell by pcd, a negative value included;
\* otherwise (a value too large for an int) the warning is printed and both
\* tables stay as loaded.
C9_PseudocountsGatedOnTypeOnly ==
    pc = "smoothed" => IF BothInt THEN Smoothed ELSE Unsmoothed

\* A negative pseudocount was added to the RNA table and the DNA table got
\* its own pseudocount.
C9_Witness ==
    /\ pc = "smoothed"
    /\ BothInt /\ args.pcr.value < 0 /\ args.pcd.value > 0
    /\ \E r \in Index(df_rna) : \E c \in Columns(df_rna) : df_rna[r][c] < 0
    /\ \E r \in Index(df_dna) : \E c \in Columns(df_dna) : df_dna[r][c] > InputDna(k)[r][c]

\* --------------------------------------------------------------------- C10
\* the file operations of one pair that is processed to the end
Completed(j) == << <<"read", j, "rna">>, <<"read", j, "dna">>, <<"write", j>> >>

RECURSIVE CompletedUpTo(_)
CompletedUpTo(j) == IF j = 0 THEN <<>> ELSE CompletedUpTo(j - 1) \o Completed(j)

\* the output files a run can start with
InitialOutfiles == {NoFile, [exists |-> TRUE, data |-> StaleOutput]}

\* C10: the file operations are those of pairs 1, 2, ... in list order, each
\* pair read and written before the next is read.  When read_csv has raised
\* on pair k the run has stopped there: pairs 1..k-1 were completed, pair k
\* wrote nothing, no later pair was touched, and the output file holds the
\* result of pair k-1, or what it held before the run when k = 1.
C10_SequentialAndStopsAtFirstError ==
    /\ pc = "loop" => io = CompletedUpTo(k - 1)
    /\ InBody => io = CompletedUpTo(k - 1) \o SubSeq(Completed(k), 1, 2)
    /\ pc = "exit0" => io = CompletedUpTo(Len(Pairs))
    /\ pc = "raised" =>
          /\ \/ io = Append(CompletedUpTo(k - 1), <<"fail", k, "rna">>)
             \/ io = CompletedUpTo(k - 1) \o << <<"read", k, "rna">>, <<"fail", k, "dna">> >>
          /\ IF k > 1
             THEN outfile = [exists |-> TRUE, data |-> df_output]
                  /\ Index(df_output) = Index(InputRna(k - 1))
             ELSE outfile \in InitialOutfiles

\* The second of three pairs has failed: the first was written, the third was
\* never read.
C10_Witness ==
    /\ pc = "raised" /\ k = 2 /\ Len(Pairs) = 3
    /\ Len(Written) = 1
    /\ outfile.exists /\ Index(outfile.data) = Index(InputRna(1))

====
